---- MODULE Spec2Model ----
(***************************************************************************)
(* Model of the task engine of the Cog agent: TaskManager                  *)
(* (src/core/task_manager.py), the Task Store it writes to                 *)
(* (src/utils/database.py) and the driver loop CogAgent._main_loop         *)
(* (src/cog_agent.py).  Coroutines interleave at their await points: one   *)
(* action is one run of a coroutine from one await to the next.            *)
(***************************************************************************)
EXTENDS Integers, Sequences, FiniteSets, Bags, TLC

\* ---------------------------------------------------------------- bounds
MaxTasks == 1          \* create_task calls explored by Spec
MaxTime == 2           \* last clock value explored by Spec
SchedDelay == 1        \* how far ahead a deferred task is scheduled
ExecTasks == 1         \* create_task calls explored by SpecExec
ExecTime == 14         \* last clock value explored by SpecExec
SchedTasks == 3        \* create_task calls explored by SpecSched
SchedTime == 1         \* last clock value explored by SpecSched
BurstTasks == 6        \* create_task calls explored by SpecBurst
StoreTasks == 1        \* create_task calls explored by SpecStore
StoreTime == 2         \* last clock value explored by SpecStore
LaunchTasks == 2       \* create_task calls explored by SpecLaunch
LaunchTime == 2        \* last clock value explored by SpecLaunch
LiveTasks == 1         \* create_task calls explored by SpecLive
CreateTasks == 2       \* create_task calls explored by SpecCreate
CreateTime == 1        \* last clock value explored by SpecCreate
ShutdownTasks == 1     \* create_task calls explored by SpecShutdown
ShutdownTime == 2      \* last clock value explored by SpecShutdown
QueryTasks == 2        \* create_task calls explored by SpecQuery
QueryTime == 1         \* last clock value explored by SpecQuery
QueryLimit == 3        \* largest limit given to get_task_history

\* ------------------------------------------------------ program constants
max_concurrent_tasks == 5
DefaultMaxRetries == 3
DefaultPriority == 5
HighPriority == 1
BackoffBase == 2

None == -1
HandlerTypes == {"food_order"}
TaskTypes == {"food_order", "bogus"}
Priorities == {HighPriority, DefaultPriority}
Outcomes == {"ok", "err", "raise"}

\* now              the clock (datetime.now(), the event loop's time)
\* tasks            TaskManager.tasks: the task with id i is tasks[i]
\* scheduled_tasks  TaskManager.scheduled_tasks, a list of ids
\* active_tasks     TaskManager.active_tasks, a list of ids
\* store            the tasks table of the Database: a bag of rows
\* database         the Database object: its connection, whether a write has
\*                  failed, whether a failure has left save_task
\* coros            the suspended _execute_task coroutines (a bag)
\* ready            the coroutines queued by asyncio.create_task, not yet run
\* loop             where CogAgent._main_loop stands
\* invoked          per task, how many times its handler was invoked
\* attempts         per task, the outcomes of its handler's attempts so far
\* raised           the operations out of which an exception has propagated,
\*                  each with its cause
\* last             the call that returned in the latest step: a cancel_task
\*                  or a query with its argument and its value, a shutdown,
\*                  or an outermost _execute_task
\* is_running       CogAgent.is_running, the flag _main_loop runs under
VARIABLES now, tasks, scheduled_tasks, active_tasks, store, database, coros,
          ready, loop, invoked, attempts, raised, last, is_running

vars == <<now, tasks, scheduled_tasks, active_tasks, store, database, coros,
          ready, loop, invoked, attempts, raised, last, is_running>>

\* The engine state the helpers below transform.
Engine == [tasks |-> tasks, scheduled_tasks |-> scheduled_tasks,
           active_tasks |-> active_tasks, store |-> store,
           database |-> database, invoked |-> invoked, attempts |-> attempts]

\* ---------------------------------------------------------------- helpers
RECURSIVE Pow(_, _)
Pow(b, n) == IF n = 0 THEN 1 ELSE b * Pow(b, n - 1)

InSeq(s, x) == \E i \in 1..Len(s) : s[i] = x

Count(s, x) == Cardinality({i \in 1..Len(s) : s[i] = x})

\* list.remove(x): drops the first occurrence of x.
RECURSIVE RemoveFirst(_, _)
RemoveFirst(s, x) ==
    IF s = <<>> THEN <<>>
    ELSE IF Head(s) = x THEN Tail(s)
    ELSE <<Head(s)>> \o RemoveFirst(Tail(s), x)

RemoveAt(s, i) == SubSeq(s, 1, i - 1) \o SubSeq(s, i + 1, Len(s))

\* An unknown-type result that carries no error key.
HasErrorKnownOnly(res) == res \in {"err", "exc"}

\* result.get('error'): the result carries an error.
HasError(res) == res \in {"err", "unknown", "exc"}

\* Task(...) as built by create_task.
NewTask(type, scheduled_at, priority, clock) ==
    [type |-> type, status |-> "pending", created_at |-> clock,
     scheduled_at |-> scheduled_at, completed_at |-> None,
     result |-> "empty", priority |-> priority,
     max_retries |-> DefaultMaxRetries, retry_count |-> 0]

\* The row save_task writes for the task t with id: the columns of the
\* tasks table.
Row(id, t) ==
    [id |-> id, type |-> t.type, status |-> t.status,
     created_at |-> t.created_at, scheduled_at |-> t.scheduled_at,
     completed_at |-> t.completed_at, result |-> t.result,
     priority |-> t.priority, retry_count |-> t.retry_count]

\* The rows of table s whose id is not id / is id.
RowsOthers(s, id) == [r \in {x \in DOMAIN s : x.id # id} |-> s[r]]
RowsOf(s, id) == [r \in {x \in DOMAIN s : x.id = id} |-> s[r]]

\* A plain INSERT into a table without its key: the row is added.
InsertAppending(s, row) == s (+) SetToBag({row})

\* INSERT OR REPLACE with id as PRIMARY KEY: the row that holds the id is
\* deleted, the new row is inserted.
InsertOrReplace(s, row) == RowsOthers(s, row.id) (+) SetToBag({row})

\* What cursor.execute raises: a closed connection refuses the statement.
WriteError(e) ==
    IF e.database.connection = "closed" THEN "ProgrammingError" ELSE "none"

\* A save_task without its try block.
SaveCaughtNothing(err) == FALSE

\* except Exception in save_task: the error is logged, nothing is raised.
SaveCaught(err) == err = "ProgrammingError"

\* Database.save_task.
save_task(e, t) ==
    LET err == WriteError(e) IN
    IF err = "none"
    THEN [e EXCEPT !.store = InsertOrReplace(@, Row(t, e.tasks[t]))]
    ELSE IF SaveCaught(err)
    THEN [e EXCEPT !.database.failed = TRUE]
    ELSE [e EXCEPT !.database.failed = TRUE, !.database.escaped = TRUE]

update_task(e, t) == save_task(e, t)

\* A start that clears the deferral of the task it starts.
ExecBeginUnscheduling(e, t) ==
    [e EXCEPT !.tasks[t].status = "running",
              !.tasks[t].scheduled_at = None,
              !.active_tasks = Append(@, t)]

\* _execute_task up to the try: mark running and record in the active list.
ExecBegin(e, t) ==
    [e EXCEPT !.tasks[t].status = "running",
              !.active_tasks = Append(@, t)]

\* A record of the result that does not look for an error in it.
ExecRecordCompleting(e, t, res, clock) ==
    [e EXCEPT !.tasks[t].result = res,
              !.tasks[t].status = "completed",
              !.tasks[t].completed_at = clock,
              !.attempts[t] = IF res \in Outcomes THEN Append(@, res) ELSE @]

\* The normal end of the try block: record the result.
ExecRecord(e, t, res, clock) ==
    [e EXCEPT !.tasks[t].result = res,
              !.tasks[t].status = IF HasError(res) THEN "failed" ELSE "completed",
              !.tasks[t].completed_at = clock,
              !.attempts[t] = IF res \in Outcomes THEN Append(@, res) ELSE @]

\* A finally block that leaves the task in the active list.
ExecFinallyKeeping(e, t) == update_task(e, t)

\* The finally block of one frame.
ExecFinally(e, t) ==
    update_task([e EXCEPT !.active_tasks =
                     IF InSeq(@, t) THEN RemoveFirst(@, t) ELSE @], t)

\* The finally blocks of the innermost frame and of the depth frames that
\* await it: they run back to back when the innermost frame returns.
RECURSIVE ExecUnwind(_, _, _)
ExecUnwind(e, t, depth) ==
    IF depth = 0 THEN ExecFinally(e, t)
    ELSE ExecUnwind(ExecFinally(e, t), t, depth - 1)

\* The except block up to the retry decision.
ExecFail(e, t, clock) ==
    [e EXCEPT !.tasks[t].result = "exc",
              !.tasks[t].status = "failed",
              !.tasks[t].completed_at = clock,
              !.attempts[t] = Append(@, "raise")]

\* A retry test that never lets a retry through.
CanRetryNever(e, t) == FALSE

\* A retry test that is off by one.
CanRetryInclusive(e, t) == e.tasks[t].retry_count <= e.tasks[t].max_retries

CanRetry(e, t) == e.tasks[t].retry_count < e.tasks[t].max_retries

\* A re-arm that forgets to count the retry.
ExecRearmUncounted(e, t) ==
    [e EXCEPT !.tasks[t].status = "pending",
              !.tasks[t].completed_at = None]

\* A re-arm that leaves completed_at as the failure set it.
ExecRearmStamped(e, t) ==
    [e EXCEPT !.tasks[t].retry_count = @ + 1,
              !.tasks[t].status = "pending"]

\* The re-arm inside the except block.
ExecRearm(e, t) ==
    [e EXCEPT !.tasks[t].retry_count = @ + 1,
              !.tasks[t].status = "pending",
              !.tasks[t].completed_at = None]

\* A backoff that grows by a fixed step.
BackoffDelayLinear(retry_count) == BackoffBase * retry_count

\* 2 ** task.retry_count, the argument of the backoff sleep.
BackoffDelay(retry_count) == Pow(BackoffBase, retry_count)

\* A try block without its except clause.
CaughtNothing(outcome) == FALSE

\* except Exception: what a handler raises is an Exception and is caught.
Caught(outcome) == outcome = "raise"

\* One call of _execute_task from its entry to its first suspension: a task
\* with a handler suspends inside the handler; an unknown type runs through.
ExecEnter(e, t, clock) ==
    LET e1 == ExecBegin(e, t) IN
    IF e1.tasks[t].type \in HandlerTypes
    THEN [e |-> [e1 EXCEPT !.invoked[t] = @ + 1], suspended |-> TRUE]
    ELSE [e |-> ExecFinally(ExecRecord(e1, t, "unknown", clock), t),
          suspended |-> FALSE]

\* An _execute_task coroutine suspended in its handler; parent tells who
\* awaits it: "create" (create_task), "check" (check_scheduled_tasks) or
\* "spawn" (nobody: asyncio.create_task).
NewCoro(t, parent) ==
    [task |-> t, pc |-> "handler", depth |-> 0, wake |-> None,
     parent |-> parent]

\* ------------------------------------------------------ check_scheduled_tasks
\* The for loop of check_scheduled_tasks over the rest of its snapshot, run
\* until it suspends in an _execute_task, raises or ends.  list.remove raises
\* ValueError when the task has left scheduled_tasks since the snapshot.
RECURSIVE CheckLoop(_, _, _, _, _)
CheckLoop(e, snap, current_time, clock, done) ==
    IF snap = <<>>
    THEN [e |-> e, pc |-> "returned", snap |-> <<>>, started |-> EmptyBag,
          done |-> done]
    ELSE LET t == Head(snap) IN
         IF e.tasks[t].scheduled_at # None /\ e.tasks[t].scheduled_at <= current_time
         THEN IF ~InSeq(e.scheduled_tasks, t)
              THEN [e |-> e, pc |-> "raised", snap |-> <<>>,
                    started |-> EmptyBag, done |-> done]
              ELSE LET e1 == [e EXCEPT !.scheduled_tasks = RemoveFirst(@, t)]
                       r == ExecEnter(e1, t, clock)
                   IN IF r.suspended
                      THEN [e |-> r.e, pc |-> "suspended", snap |-> Tail(snap),
                            started |-> SetToBag({NewCoro(t, "check")}),
                            done |-> done]
                      ELSE CheckLoop(r.e, Tail(snap), current_time, clock, t)
         ELSE CheckLoop(e, Tail(snap), current_time, clock, done)

\* One pass of the while loop of _main_loop starts here.
LoopTop == [pc |-> "check", snap |-> <<>>, current_time |-> None]

\* _main_loop after check_scheduled_tasks ran to the result r: it stays
\* suspended in the call, goes on to process_pending_tasks, or logs the
\* exception and starts the next pass.
LoopAfterCheck(r, current_time) ==
    IF r.pc = "suspended"
    THEN [pc |-> "checkwait", snap |-> r.snap, current_time |-> current_time]
    ELSE IF r.pc = "returned"
    THEN [LoopTop EXCEPT !.pc = "process"]
    ELSE LoopTop

\* ------------------------------------------------------ process_pending_tasks
SortKey(e, t) == <<e.tasks[t].priority, e.tasks[t].created_at>>

\* A comparison that looks at the creation time alone.
KeyLessByCreation(k1, k2) == k1[2] < k2[2]

\* Python's tuple comparison of two sort keys.
KeyLess(k1, k2) == k1[1] < k2[1] \/ (k1[1] = k2[1] /\ k1[2] < k2[2])

\* list.sort(key=...) is stable: t goes behind the entries whose key is equal.
RECURSIVE SortInsert(_, _, _)
SortInsert(e, s, t) ==
    IF s = <<>> THEN <<t>>
    ELSE IF KeyLess(SortKey(e, t), SortKey(e, Head(s))) THEN <<t>> \o s
    ELSE <<Head(s)>> \o SortInsert(e, Tail(s), t)

RECURSIVE SortByKey(_, _, _)
SortByKey(e, ids, acc) ==
    IF ids = <<>> THEN acc
    ELSE SortByKey(e, Tail(ids), SortInsert(e, acc, Head(ids)))

\* [t for t in self.tasks.values() if t.status == "pending"], in dict order.
RECURSIVE PendingFrom(_, _)
PendingFrom(e, i) ==
    IF i > Len(e.tasks) THEN <<>>
    ELSE (IF e.tasks[i].status = "pending" THEN <<i>> ELSE <<>>)
         \o PendingFrom(e, i + 1)

PendingSorted(e) == SortByKey(e, PendingFrom(e, 1), <<>>)

Eligible(e, t, clock) ==
    e.tasks[t].scheduled_at = None \/ e.tasks[t].scheduled_at <= clock

\* The while loop: asyncio.create_task only queues the coroutine, so
\* active_tasks does not change while the loop runs.
RECURSIVE LaunchLoop(_, _, _)
LaunchLoop(e, pending, clock) ==
    IF Len(e.active_tasks) < max_concurrent_tasks /\ pending # <<>>
    THEN (IF Eligible(e, Head(pending), clock) THEN <<Head(pending)>> ELSE <<>>)
         \o LaunchLoop(e, Tail(pending), clock)
    ELSE <<>>

\* ------------------------------------------------------------ _execute_task
\* The outermost _execute_task frame of coroutine co ends: its finally blocks
\* run, then whoever awaits it goes on.  exc tells whether it ends by an
\* exception, which then propagates into the awaiting operation.
Finish(e, co, exc) ==
    LET t == co.task
        e1 == ExecUnwind(e, t, co.depth)
        rest == coros (-) SetToBag({co})
        esc == IF exc THEN {<<"_execute_task", "handler">>} ELSE {}
    IN IF co.parent = "create"
       THEN [e |-> IF exc THEN e1 ELSE save_task(e1, t), coros |-> rest,
             loop |-> loop,
             raised |-> raised \cup esc \cup
                        (IF exc THEN {<<"create_task", "handler">>} ELSE {})]
       ELSE IF co.parent = "check"
       THEN IF exc
            THEN [e |-> e1, coros |-> rest, loop |-> LoopTop,
                  raised |-> raised \cup esc \cup
                             {<<"check_scheduled_tasks", "handler">>}]
            ELSE LET r == CheckLoop(e1, loop.snap, loop.current_time, now, t) IN
                 [e |-> r.e, coros |-> rest (+) r.started,
                  loop |-> LoopAfterCheck(r, loop.current_time),
                  raised |-> raised \cup
                             (IF r.pc = "raised"
                              THEN {<<"check_scheduled_tasks", "ValueError">>}
                              ELSE {})]
       ELSE [e |-> e1, coros |-> rest, loop |-> loop,
             raised |-> raised \cup esc]

\* The handler awaited by coroutine co ends with the given outcome: the rest
\* of the try block, or the except block up to the backoff sleep.
AfterHandler(e, co, outcome, clock) ==
    LET t == co.task
        ran(r) == [e |-> r.e, coros |-> r.coros, loop |-> r.loop,
                   raised |-> r.raised, done |-> t]
    IN
    IF outcome \in {"ok", "err"}
    THEN ran(Finish(ExecRecord(e, t, outcome, clock), co, FALSE))
    ELSE IF ~Caught(outcome)
    THEN ran(Finish([e EXCEPT !.attempts[t] = Append(@, "raise")], co, TRUE))
    ELSE LET e1 == ExecFail(e, t, clock) IN
         IF CanRetry(e1, t)
         THEN LET e2 == ExecRearm(e1, t) IN
              [e |-> e2,
               coros |-> (coros (-) SetToBag({co})) (+)
                   SetToBag({[co EXCEPT
                       !.pc = "backoff",
                       !.wake = clock + BackoffDelay(e2.tasks[t].retry_count)]}),
               loop |-> loop, raised |-> raised, done |-> 0]
         ELSE ran(Finish(e1, co, FALSE))

\* ------------------------------------------------------------------ queries
\* A dict with the fields of task t. alias tells whether it is the Task
\* object's own storage (a write into it is a write into the task) or a dict
\* of its own.
TaskDict(e, t, alias) ==
    [id |-> t, alias |-> alias, type |-> e.tasks[t].type,
     status |-> e.tasks[t].status, created_at |-> e.tasks[t].created_at,
     scheduled_at |-> e.tasks[t].scheduled_at,
     completed_at |-> e.tasks[t].completed_at, result |-> e.tasks[t].result,
     priority |-> e.tasks[t].priority, max_retries |-> e.tasks[t].max_retries,
     retry_count |-> e.tasks[t].retry_count]

\* A query that hands out the Task object's own __dict__.
asdictAliasing(e, t) == TaskDict(e, t, TRUE)

\* dataclasses.asdict: a new dict, the field values copied into it.
asdict(e, t) == TaskDict(e, t, FALSE)

\* get_task_status: the record of the task, or nothing (None) for an id the
\* task map does not hold.
get_task_status(e, id) ==
    IF id \in 1..Len(e.tasks) THEN <<asdict(e, id)>> ELSE <<>>

\* get_active_tasks: one dict per entry of active_tasks, in its order.
get_active_tasks(e) ==
    [i \in 1..Len(e.active_tasks) |-> asdict(e, e.active_tasks[i])]

\* A sort of the history by created_at without reverse=True.
NewerFirstAscending(e, a, b) == e.tasks[a].created_at < e.tasks[b].created_at

\* The order of tasks.sort(key=lambda t: t.created_at, reverse=True): a goes
\* before b when it was created later.
NewerFirst(e, a, b) == e.tasks[a].created_at > e.tasks[b].created_at

\* list.sort is stable, with reverse=True too: a task goes behind the tasks
\* already placed that have its created_at.
RECURSIVE HistoryInsert(_, _, _)
HistoryInsert(e, s, t) ==
    IF s = <<>> THEN <<t>>
    ELSE IF NewerFirst(e, t, Head(s)) THEN <<t>> \o s
    ELSE <<Head(s)>> \o HistoryInsert(e, Tail(s), t)

\* list(self.tasks.values()), the first n tasks of it, sorted.
RECURSIVE HistorySorted(_, _)
HistorySorted(e, n) ==
    IF n = 0 THEN <<>> ELSE HistoryInsert(e, HistorySorted(e, n - 1), n)

\* s[:limit] for limit >= 0.
Slice(s, limit) == SubSeq(s, 1, IF limit < Len(s) THEN limit ELSE Len(s))

get_task_history(e, limit) ==
    LET s == Slice(HistorySorted(e, Len(e.tasks)), limit) IN
    [i \in 1..Len(s) |-> asdict(e, s[i])]

\* len([t for t in self.tasks.values() if t.status == status]).
StatusCount(e, status) ==
    Len(SelectSeq(e.tasks, LAMBDA t : t.status = status))

\* A quotient computed whatever the number of tasks: with none the division
\* fails, which den = 0 stands for.
SuccessRateUnguarded(completed_tasks, total_tasks) ==
    [num |-> completed_tasks, den |-> total_tasks]

\* completed_tasks / total_tasks if total_tasks > 0 else 0, as the fraction
\* num / den.
SuccessRate(completed_tasks, total_tasks) ==
    IF total_tasks > 0 THEN [num |-> completed_tasks, den |-> total_tasks]
    ELSE [num |-> 0, den |-> 1]

get_task_statistics(e) ==
    LET total_tasks == Len(e.tasks)
        completed_tasks == StatusCount(e, "completed")
        failed_tasks == StatusCount(e, "failed")
        pending_tasks == StatusCount(e, "pending")
    IN [total_tasks |-> total_tasks, completed_tasks |-> completed_tasks,
        failed_tasks |-> failed_tasks, pending_tasks |-> pending_tasks,
        success_rate |-> SuccessRate(completed_tasks, total_tasks),
        active_tasks |-> Len(e.active_tasks)]

\* ---------------------------------------------------------------- state
SetEngine(e) ==
    /\ tasks' = e.tasks
    /\ scheduled_tasks' = e.scheduled_tasks
    /\ active_tasks' = e.active_tasks
    /\ store' = e.store
    /\ database' = e.database
    /\ invoked' = e.invoked
    /\ attempts' = e.attempts

\* What last holds after a step in which the outermost _execute_task of
\* task t returned (t = 0: none did).
Returned(t) ==
    IF t = 0 THEN [op |-> "none", task |-> 0, ret |-> "none"]
    ELSE [op |-> "_execute_task", task |-> t, ret |-> "returned"]

NoCall == Returned(0)

Init ==
    /\ now = 0
    /\ tasks = <<>>
    /\ scheduled_tasks = <<>>
    /\ active_tasks = <<>>
    /\ store = EmptyBag
    /\ database = [connection |-> "open", failed |-> FALSE, escaped |-> FALSE]
    /\ coros = EmptyBag
    /\ ready = <<>>
    /\ loop = LoopTop
    /\ invoked = <<>>
    /\ attempts = <<>>
    /\ raised = {}
    /\ last = NoCall
    /\ is_running = TRUE

\* ---------------------------------------------------------------- actions
\* The clock advances.
Tick(limit) ==
    /\ now < limit
    /\ now' = now + 1
    /\ last' = NoCall
    /\ UNCHANGED <<is_running, tasks, scheduled_tasks, active_tasks, store, database,
                   coros, ready, loop, invoked, attempts, raised>>

\* A time stamp after the epoch has moved on by one clock unit; what lies
\* before the epoch is kept as the epoch.
Earlier(x) == IF x = None \/ x = 0 THEN x ELSE x - 1

EarlierTask(t) ==
    [t EXCEPT !.created_at = Earlier(@), !.scheduled_at = Earlier(@),
              !.completed_at = Earlier(@)]

EarlierCoro(co) == [co EXCEPT !.wake = Earlier(@)]

\* One clock unit passes, told relative to the clock: now stays as it is and
\* every time stamp of the state comes one unit closer to the past.  Every
\* comparison of a stamp with the clock comes out as under a clock that
\* counts up without end; a stamp of the past that is compared with another
\* stamp of the past (the current_time a check_scheduled_tasks call read
\* before it was suspended) may count as later than it was.
Elapse ==
    /\ tasks' = [i \in 1..Len(tasks) |-> EarlierTask(tasks[i])]
    /\ store' = BagOfAll(EarlierTask, store)
    /\ coros' = BagOfAll(EarlierCoro, coros)
    /\ loop' = [loop EXCEPT !.current_time = Earlier(@)]
    /\ last' = NoCall
    /\ UNCHANGED <<is_running, now, scheduled_tasks, active_tasks, database, ready,
                   invoked, attempts, raised>>

\* A deferral test that also defers a task scheduled for this very moment.
DeferredInclusive(scheduled_at, clock) ==
    scheduled_at # None /\ scheduled_at >= clock

\* scheduled_at and scheduled_at > datetime.now()
Deferred(scheduled_at, clock) == scheduled_at # None /\ scheduled_at > clock

\* create_task up to its first suspension (or to its return).
create_task(type, scheduled_at, priority) ==
    /\ LET t == Len(tasks) + 1
           e0 == [Engine EXCEPT
                    !.tasks = Append(@, NewTask(type, scheduled_at, priority, now)),
                    !.invoked = Append(@, 0),
                    !.attempts = Append(@, <<>>)]
       IN IF Deferred(scheduled_at, now)
          THEN /\ SetEngine(save_task(
                      [e0 EXCEPT !.scheduled_tasks = Append(@, t)], t))
               /\ coros' = coros
               /\ last' = NoCall
          ELSE LET r == ExecEnter(e0, t, now) IN
               IF r.suspended
               THEN /\ SetEngine(r.e)
                    /\ coros' = coros (+) SetToBag({NewCoro(t, "create")})
                    /\ last' = NoCall
               ELSE /\ SetEngine(save_task(r.e, t))
                    /\ coros' = coros
                    /\ last' = Returned(t)
    /\ UNCHANGED <<is_running, now, ready, loop, raised>>

\* A cancel_task that also accepts a running task.
CancellableOrRunning(e, id) ==
    id \in 1..Len(e.tasks)
    /\ e.tasks[id].status \in {"pending", "scheduled", "running"}

\* The test of cancel_task: the task exists and has not started.
Cancellable(e, id) ==
    id \in 1..Len(e.tasks) /\ e.tasks[id].status \in {"pending", "scheduled"}

\* A cancel_task that drops the record of the task it cancels.
cancel_taskDeleting(id) ==
    /\ IF Cancellable(Engine, id) /\ id = Len(tasks)
       THEN /\ tasks' = SubSeq(tasks, 1, id - 1)
            /\ invoked' = SubSeq(invoked, 1, id - 1)
            /\ attempts' = SubSeq(attempts, 1, id - 1)
            /\ scheduled_tasks' = IF InSeq(scheduled_tasks, id)
                                  THEN RemoveFirst(scheduled_tasks, id)
                                  ELSE scheduled_tasks
            /\ last' = [op |-> "cancel_task", task |-> id, ret |-> "True"]
            /\ UNCHANGED <<active_tasks, store, database>>
       ELSE /\ UNCHANGED <<tasks, scheduled_tasks, active_tasks, store,
                         database, invoked, attempts>>
            /\ last' = [op |-> "cancel_task", task |-> id, ret |-> "False"]
    /\ UNCHANGED <<is_running, now, coros, ready, loop, raised>>

\* cancel_task: no await inside, one step.
cancel_task(id) ==
    /\ IF Cancellable(Engine, id)
       THEN /\ SetEngine(update_task(
                   [Engine EXCEPT
                      !.tasks[id].status = "cancelled",
                      !.scheduled_tasks =
                          IF InSeq(@, id) THEN RemoveFirst(@, id) ELSE @], id))
            /\ last' = [op |-> "cancel_task", task |-> id, ret |-> "True"]
       ELSE /\ UNCHANGED <<tasks, scheduled_tasks, active_tasks, store,
                         database, invoked, attempts>>
            /\ last' = [op |-> "cancel_task", task |-> id, ret |-> "False"]
    /\ UNCHANGED <<is_running, now, coros, ready, loop, raised>>

\* _main_loop calls check_scheduled_tasks: the snapshot, then the for loop
\* until it suspends.
check_scheduled_tasks ==
    /\ loop.pc = "check"
    /\ is_running
    /\ LET r == CheckLoop(Engine, scheduled_tasks, now, now, 0) IN
       /\ SetEngine(r.e)
       /\ coros' = coros (+) r.started
       /\ loop' = LoopAfterCheck(r, now)
       /\ raised' = raised \cup
                    (IF r.pc = "raised"
                     THEN {<<"check_scheduled_tasks", "ValueError">>} ELSE {})
       /\ last' = Returned(r.done)
    /\ UNCHANGED <<is_running, now, ready>>

\* _main_loop calls process_pending_tasks, which has no await.
process_pending_tasks ==
    /\ loop.pc = "process"
    /\ ready' = ready \o LaunchLoop(Engine, PendingSorted(Engine), now)
    /\ loop' = [loop EXCEPT !.pc = "sleep"]
    /\ last' = NoCall
    /\ UNCHANGED <<is_running, now, tasks, scheduled_tasks, active_tasks, store, database,
                   coros, invoked, attempts, raised>>

\* await asyncio.sleep(0.1) of _main_loop is over; the coroutines queued by
\* asyncio.create_task have started by then.
LoopSleep ==
    /\ loop.pc = "sleep"
    /\ ready = <<>>
    /\ loop' = LoopTop
    /\ last' = NoCall
    /\ UNCHANGED <<is_running, now, tasks, scheduled_tasks, active_tasks, store, database,
                   coros, ready, invoked, attempts, raised>>

\* The first coroutine queued by asyncio.create_task starts and runs
\* _execute_task to its first suspension.
StartSpawned ==
    /\ ready # <<>>
    /\ LET t == Head(ready)
           r == ExecEnter(Engine, t, now)
       IN /\ SetEngine(r.e)
          /\ coros' = IF r.suspended
                      THEN coros (+) SetToBag({NewCoro(t, "spawn")})
                      ELSE coros
          /\ last' = IF r.suspended THEN NoCall ELSE Returned(t)
    /\ ready' = Tail(ready)
    /\ UNCHANGED <<is_running, now, loop, raised>>

\* The handler awaited by coroutine co ends.
HandlerDone(co, outcome) ==
    /\ BagIn(co, coros)
    /\ co.pc = "handler"
    /\ LET r == AfterHandler(Engine, co, outcome, now) IN
       /\ SetEngine(r.e)
       /\ coros' = r.coros
       /\ loop' = r.loop
       /\ raised' = r.raised
       /\ last' = Returned(r.done)
    /\ UNCHANGED <<is_running, now, ready>>

\* The backoff sleep of coroutine co is over: the recursive _execute_task
\* call, up to its suspension in the handler.
BackoffDone(co) ==
    /\ BagIn(co, coros)
    /\ co.pc = "backoff"
    /\ now >= co.wake
    /\ SetEngine(ExecEnter(Engine, co.task, now).e)
    /\ coros' = (coros (-) SetToBag({co})) (+)
                SetToBag({[co EXCEPT !.pc = "handler", !.depth = @ + 1,
                                     !.wake = None]})
    /\ last' = NoCall
    /\ UNCHANGED <<is_running, now, ready, loop, raised>>

\* Database.close: from here on every write raises.
close ==
    /\ database.connection = "open"
    /\ database' = [database EXCEPT !.connection = "closed"]
    /\ last' = NoCall
    /\ UNCHANGED <<is_running, now, tasks, scheduled_tasks, active_tasks, store, coros,
                   ready, loop, invoked, attempts, raised>>

\* save_pending_tasks from task t on: one save_task per task whose status is
\* pending or scheduled; the coroutine has no await.
RECURSIVE SavePendingFrom(_, _)
SavePendingFrom(e, t) ==
    IF t > Len(e.tasks) THEN e
    ELSE IF e.tasks[t].status \in {"pending", "scheduled"}
    THEN SavePendingFrom(save_task(e, t), t + 1)
    ELSE SavePendingFrom(e, t + 1)

save_pending_tasks(e) == SavePendingFrom(e, 1)

\* CogAgent.shutdown: the flag of _main_loop is cleared, the database is
\* closed, then save_pending_tasks is awaited; nothing suspends in between.
shutdown ==
    /\ is_running' = FALSE
    /\ LET e1 == [Engine EXCEPT !.database.connection = "closed"] IN
       SetEngine(save_pending_tasks(e1))
    /\ last' = [op |-> "shutdown", task |-> 0, ret |-> "returned"]
    /\ UNCHANGED <<now, coros, ready, loop, raised>>

\* A query returns: last holds its name, its argument (in task) and what it
\* returned. No query assigns anything.
Answered(op, arg, ret) ==
    /\ last' = [op |-> op, task |-> arg, ret |-> ret]
    /\ UNCHANGED <<is_running, now, tasks, scheduled_tasks, active_tasks, store,
                   database, coros, ready, loop, invoked, attempts, raised>>

QueryStatus(id) == Answered("get_task_status", id, get_task_status(Engine, id))

QueryActive == Answered("get_active_tasks", 0, get_active_tasks(Engine))

QueryHistory(limit) ==
    Answered("get_task_history", limit, get_task_history(Engine, limit))

QueryStatistics ==
    Answered("get_task_statistics", 0, get_task_statistics(Engine))

RecordQueries == {"get_task_status", "get_active_tasks", "get_task_history"}

\* The caller of a query assigns to the status key of the i-th dict it was
\* given: the write lands in the dict and, where the dict is the task's own
\* storage, in the task.
CallerWrites(i) ==
    /\ last.op \in RecordQueries
    /\ i \in 1..Len(last.ret)
    /\ last' = [op |-> "caller", task |-> last.ret[i].id,
                ret |-> [last.ret EXCEPT ![i].status = "written"]]
    /\ tasks' = IF last.ret[i].alias
                THEN [tasks EXCEPT ![last.ret[i].id].status = "written"]
                ELSE tasks
    /\ UNCHANGED <<is_running, now, scheduled_tasks, active_tasks, store,
                   database, coros, ready, loop, invoked, attempts, raised>>

\* ---------------------------------------------------------- specifications
\* The whole engine: callers of create_task and cancel_task, the driver loop
\* and the executor coroutines.
Next ==
    \/ Tick(MaxTime)
    \/ \E type \in TaskTypes, priority \in Priorities,
          scheduled_at \in {None, now + SchedDelay} :
            Len(tasks) < MaxTasks /\ create_task(type, scheduled_at, priority)
    \/ \E id \in 1..MaxTasks : cancel_task(id)
    \/ check_scheduled_tasks
    \/ process_pending_tasks
    \/ LoopSleep
    \/ StartSpawned
    \/ \E co \in BagToSet(coros), outcome \in Outcomes : HandlerDone(co, outcome)
    \/ \E co \in BagToSet(coros) : BackoffDone(co)

Spec == Init /\ [][Next]_vars

\* The executor alone: tasks run by create_task, nothing else touches them.
NextExec ==
    \/ Tick(ExecTime)
    \/ \E type \in TaskTypes :
            Len(tasks) < ExecTasks /\ create_task(type, None, DefaultPriority)
    \/ \E co \in BagToSet(coros), outcome \in Outcomes : HandlerDone(co, outcome)
    \/ \E co \in BagToSet(coros) : BackoffDone(co)

SpecExec == Init /\ [][NextExec]_vars

\* Deferred tasks under the driver loop: every task is created for a later
\* time, handlers succeed, callers may cancel.
NextSched ==
    \/ Tick(SchedTime)
    \/ \E priority \in Priorities :
            /\ Len(tasks) < SchedTasks
            /\ create_task("food_order", now + SchedDelay, priority)
    \/ \E id \in 1..SchedTasks : cancel_task(id)
    \/ check_scheduled_tasks
    \/ process_pending_tasks
    \/ LoopSleep
    \/ StartSpawned
    \/ \E co \in BagToSet(coros) : HandlerDone(co, "ok")

SpecSched == Init /\ [][NextSched]_vars

\* A burst of callers: create_task calls in flight at the same time.
NextBurst ==
    \/ /\ Len(tasks) < BurstTasks
       /\ create_task("food_order", None, DefaultPriority)
    \/ \E co \in BagToSet(coros), outcome \in {"ok", "err"} :
            HandlerDone(co, outcome)

SpecBurst == Init /\ [][NextBurst]_vars

\* The engine's writes to a Task Store that may be closed under it: callers
\* create and cancel tasks, executors run, the connection closes at any time.
NextStore ==
    \/ Tick(StoreTime)
    \/ \E type \in TaskTypes, scheduled_at \in {None, now + SchedDelay} :
            /\ Len(tasks) < StoreTasks
            /\ create_task(type, scheduled_at, DefaultPriority)
    \/ \E id \in 1..StoreTasks : cancel_task(id)
    \/ \E co \in BagToSet(coros), outcome \in Outcomes : HandlerDone(co, outcome)
    \/ \E co \in BagToSet(coros) : BackoffDone(co)
    \/ close

SpecStore == Init /\ [][NextStore]_vars

\* The agent shut down at any moment of the engine's run: _main_loop, callers
\* of create_task and the executors go on until they see the flag.
NextShutdown ==
    \/ Tick(ShutdownTime)
    \/ \E scheduled_at \in {None, now + SchedDelay} :
            /\ Len(tasks) < ShutdownTasks
            /\ create_task("food_order", scheduled_at, DefaultPriority)
    \/ check_scheduled_tasks
    \/ process_pending_tasks
    \/ LoopSleep
    \/ StartSpawned
    \/ \E co \in BagToSet(coros), outcome \in {"ok", "raise"} :
            HandlerDone(co, outcome)
    \/ \E co \in BagToSet(coros) : BackoffDone(co)
    \/ shutdown

SpecShutdown == Init /\ [][NextShutdown]_vars

\* Callers of the query surface while tasks are created, deferred, executed
\* and cancelled.
NextQuery ==
    \/ Tick(QueryTime)
    \/ \E scheduled_at \in {None, now + SchedDelay} :
            /\ Len(tasks) < QueryTasks
            /\ create_task("food_order", scheduled_at, DefaultPriority)
    \/ \E id \in 1..QueryTasks : cancel_task(id)
    \/ \E co \in BagToSet(coros), outcome \in {"ok", "err"} :
            HandlerDone(co, outcome)
    \/ \E id \in 1..QueryTasks : QueryStatus(id)
    \/ QueryActive
    \/ \E limit \in 0..QueryLimit : QueryHistory(limit)
    \/ QueryStatistics
    \/ \E i \in 1..QueryTasks : CallerWrites(i)

SpecQuery == Init /\ [][NextQuery]_vars

\* Failing tasks under the driver loop: every handler raises, so tasks wait in
\* their backoff while the loop goes on launching.
NextLaunch ==
    \/ Tick(LaunchTime)
    \/ /\ Len(tasks) < LaunchTasks
       /\ create_task("food_order", None, DefaultPriority)
    \/ check_scheduled_tasks
    \/ process_pending_tasks
    \/ LoopSleep
    \/ StartSpawned
    \/ \E co \in BagToSet(coros) : HandlerDone(co, "raise")
    \/ \E co \in BagToSet(coros) : BackoffDone(co)

SpecLaunch == Init /\ [][NextLaunch]_vars

\* Callers of create_task with every kind of scheduled_at: absent, past, the
\* present moment, later.
NextCreate ==
    \/ Tick(CreateTime)
    \/ \E type \in TaskTypes, scheduled_at \in {None} \cup 0..(now + SchedDelay) :
            /\ Len(tasks) < CreateTasks
            /\ create_task(type, scheduled_at, DefaultPriority)
    \/ \E co \in BagToSet(coros) : HandlerDone(co, "ok")

SpecCreate == Init /\ [][NextCreate]_vars

\* An executor of task t stands in its handler / the handler of one ends.
HandlerPending(t) ==
    \E co \in BagToSet(coros) : co.task = t /\ co.pc = "handler"

HandlerEnds(t) ==
    \E co \in BagToSet(coros), outcome \in {"ok", "raise"} :
        co.task = t /\ HandlerDone(co, outcome)

\* The engine left to run: callers create and cancel tasks at will; the clock,
\* the driver loop, the queued coroutines and every backoff sleep go on (weak
\* fairness), and every handler ends, returning or raising as it likes (weak
\* fairness of HandlerEnds, its enabling condition written out).
NextLive ==
    \/ Elapse
    \/ \E type \in TaskTypes, scheduled_at \in {None, now + SchedDelay} :
            /\ Len(tasks) < LiveTasks
            /\ create_task(type, scheduled_at, DefaultPriority)
    \/ \E id \in 1..LiveTasks : cancel_task(id)
    \/ check_scheduled_tasks
    \/ process_pending_tasks
    \/ LoopSleep
    \/ StartSpawned
    \/ \E t \in 1..LiveTasks : HandlerEnds(t)
    \/ \E co \in BagToSet(coros) : BackoffDone(co)

SpecLive ==
    /\ Init /\ [][NextLive]_vars
    /\ WF_vars(Elapse)
    /\ WF_vars(check_scheduled_tasks)
    /\ WF_vars(process_pending_tasks)
    /\ WF_vars(LoopSleep)
    /\ WF_vars(StartSpawned)
    /\ \A t \in 1..LiveTasks :
          /\ <>[]HandlerPending(t) => []<><<HandlerEnds(t)>>_vars
          /\ WF_vars(\E co \in BagToSet(coros) :
                        co.task = t /\ BackoffDone(co))

\* ------------------------------------------------------------------ claims
\* No coroutine of task t is suspended or queued.
Quiet(t) ==
    /\ \A co \in BagToSet(coros) : co.task # t
    /\ ~InSeq(ready, t)

\* C1: the number of entries of active_tasks never exceeds
\* max_concurrent_tasks, whatever create_task calls, driver-loop calls and
\* executor coroutines interleave.
C1_ConcurrencyBound == Len(active_tasks) <= max_concurrent_tasks

\* C2: cancel_task(id) returns True, sets the status to cancelled, takes the
\* task out of scheduled_tasks and writes it to the store exactly when the task
\* exists with status pending or scheduled; otherwise it returns False and
\* changes no task, no engine list and no row of the store.
C2_CancelLegality ==
    [][last'.op = "cancel_task" =>
        LET id == last'.task IN
        IF id \in 1..Len(tasks) /\ tasks[id].status \in {"pending", "scheduled"}
        THEN /\ last'.ret = "True"
             /\ tasks' = [tasks EXCEPT ![id].status = "cancelled"]
             /\ ~InSeq(scheduled_tasks', id)
             /\ \A j \in 1..Len(tasks) : j # id =>
                    Count(scheduled_tasks', j) = Count(scheduled_tasks, j)
             /\ active_tasks' = active_tasks
             /\ RowsOf(store', id) = SetToBag({Row(id, tasks'[id])})
             /\ RowsOthers(store', id) = RowsOthers(store, id)
        ELSE /\ last'.ret = "False"
             /\ UNCHANGED <<tasks, scheduled_tasks, active_tasks, store>>
      ]_vars

\* A cancel_task call has returned True for a task taken out of its retry
\* backoff or its deferral; the store holds the cancelled status.
C2_Witness ==
    /\ last.op = "cancel_task" /\ last.ret = "True"
    /\ tasks[last.task].status = "cancelled"
    /\ RowsOf(store, last.task) = SetToBag({Row(last.task, tasks[last.task])})

\* Every attempt of task t that has ended, ended by raising.
AllRaised(t) == \A i \in 1..Len(attempts[t]) : attempts[t][i] = "raise"

\* C3: a task whose handler raises on every attempt has its handler invoked
\* max_retries + 1 times, never more, and ends failed with
\* retry_count = max_retries, also when the driver loop ticks during the
\* backoff waits.
C3_RetryExhaustion ==
    \A t \in 1..Len(tasks) :
        AllRaised(t) =>
            /\ invoked[t] <= tasks[t].max_retries + 1
            /\ (Quiet(t) /\ invoked[t] > 0) =>
                   /\ invoked[t] = tasks[t].max_retries + 1
                   /\ tasks[t].status = "failed"
                   /\ tasks[t].retry_count = tasks[t].max_retries

\* The attempts of task t: k raises, then a successful return.
RaisedThenOk(t, k) ==
    /\ Len(attempts[t]) = k + 1
    /\ \A i \in 1..k : attempts[t][i] = "raise"
    /\ attempts[t][k + 1] = "ok"

\* C4: a task run by create_task alone, whose handler raises on its first
\* k <= max_retries attempts and then succeeds, ends completed with
\* retry_count = k, completed_at set, the handler's result, and k + 1 handler
\* invocations.
C4_RetryThenSuccess ==
    \A t \in 1..Len(tasks) : \A k \in 0..tasks[t].max_retries :
        (Quiet(t) /\ RaisedThenOk(t, k)) =>
            /\ tasks[t].status = "completed"
            /\ tasks[t].retry_count = k
            /\ tasks[t].completed_at # None
            /\ tasks[t].result = "ok"
            /\ invoked[t] = k + 1

\* A task has failed twice and then succeeded.
C4_Witness ==
    \E t \in 1..Len(tasks) :
        Quiet(t) /\ RaisedThenOk(t, 2) /\ tasks[t].status = "completed"

\* Task a comes strictly before task b in (priority, created_at) order.
Before(a, b) ==
    \/ tasks[a].priority < tasks[b].priority
    \/ /\ tasks[a].priority = tasks[b].priority
       /\ tasks[a].created_at < tasks[b].created_at

\* C5: within one call of process_pending_tasks the eligible pending tasks are
\* started in ascending (priority, created_at) order: the queue of started
\* coroutines is in that order, creation order within one priority, and no
\* eligible pending task with a smaller key is left out while another starts.
C5_PriorityOrder ==
    /\ [](\A i, j \in 1..Len(ready) : i < j =>
            /\ ~Before(ready[j], ready[i])
            /\ tasks[ready[i]].priority = tasks[ready[j]].priority =>
                   ready[i] < ready[j])
    /\ [][(loop.pc = "process" /\ loop'.pc = "sleep") =>
            \A a, b \in 1..Len(tasks) :
                ( /\ InSeq(ready', a) /\ ~InSeq(ready', b)
                  /\ tasks[b].status = "pending"
                  /\ (tasks[b].scheduled_at = None \/ tasks[b].scheduled_at <= now) )
                => ~Before(b, a)
         ]_vars

\* One call has queued two tasks against their creation order: the later one
\* has the higher priority.
C5_Witness ==
    /\ Len(ready) >= 2
    /\ ready[1] > ready[2]
    /\ tasks[ready[1]].priority < tasks[ready[2]].priority

\* The check_scheduled_tasks call of the driver loop ends in this step, by
\* returning or by raising.
CheckEnds ==
    \/ loop.pc = "check" /\ loop'.pc = "process"
    \/ loop.pc = "checkwait" /\ loop'.pc \in {"process", "check"}

\* What is left of the call's snapshot before this step, and the time the
\* call read when it began.
CheckSnap == IF loop.pc = "check" THEN scheduled_tasks ELSE loop.snap
CheckTime == IF loop.pc = "check" THEN now ELSE loop.current_time

\* C6: a task deferred to a later time is not started while
\* now < scheduled_at; and a check_scheduled_tasks call made at or after
\* scheduled_at while the task is in scheduled_tasks takes it out of
\* scheduled_tasks and starts it.
C6_SchedulingPromotion ==
    /\ [](\A t \in 1..Len(tasks) :
            (tasks[t].scheduled_at # None /\ now < tasks[t].scheduled_at) =>
                /\ tasks[t].status \in {"pending", "cancelled"}
                /\ invoked[t] = 0
                /\ ~InSeq(active_tasks, t))
    /\ [][CheckEnds =>
            \A i \in 1..Len(CheckSnap) :
                LET t == CheckSnap[i] IN
                (tasks[t].scheduled_at <= CheckTime /\ InSeq(scheduled_tasks, t))
                => /\ ~InSeq(scheduled_tasks', t)
                   /\ (invoked'[t] > invoked[t] \/ tasks'[t].status # "pending")
         ]_vars

\* C7: retry_count never exceeds max_retries, it never decreases, and it
\* grows by exactly one with each re-arm (running back to pending).
C7_RetryCountBound ==
    /\ [](\A t \in 1..Len(tasks) :
            tasks[t].retry_count <= tasks[t].max_retries)
    /\ [][\A t \in 1..Len(tasks) :
            /\ \/ tasks'[t].retry_count = tasks[t].retry_count
               \/ /\ tasks'[t].retry_count = tasks[t].retry_count + 1
                  /\ tasks'[t].status = "pending"
            /\ (tasks[t].status = "running" /\ tasks'[t].status = "pending")
                   => tasks'[t].retry_count = tasks[t].retry_count + 1
         ]_vars

\* A handler has raised with the retries used up: the task stays failed with
\* retry_count = max_retries.
C7_Witness ==
    \E t \in 1..Len(tasks) :
        /\ tasks[t].retry_count = tasks[t].max_retries
        /\ tasks[t].status = "failed"
        /\ Len(attempts[t]) > tasks[t].max_retries
        /\ AllRaised(t)

\* Task t is completed, cancelled, or failed with its retries used up.
Terminal(t) ==
    \/ tasks[t].status \in {"completed", "cancelled"}
    \/ /\ tasks[t].status = "failed"
       /\ tasks[t].retry_count >= tasks[t].max_retries

\* C8: once a task is completed, cancelled, or failed with its retries used
\* up, no step changes its status again.
C8_TerminalAbsorbing ==
    [][\A t \in 1..Len(tasks) :
          Terminal(t) => tasks'[t].status = tasks[t].status]_vars

\* C9: whatever the handler does, no exception of a handler propagates out of
\* _execute_task, create_task, check_scheduled_tasks or process_pending_tasks,
\* and an attempt that fails leaves an error result in the task.
C9_ErrorsContained ==
    /\ [](\A r \in raised : r[2] # "handler")
    /\ [][\A t \in 1..Len(tasks) :
            ( /\ Len(attempts'[t]) > Len(attempts[t])
              /\ attempts'[t][Len(attempts'[t])] \in {"raise", "err"} )
            => /\ tasks'[t].result \in {"exc", "err"}
               /\ tasks'[t].status \in {"failed", "pending"}
         ]_vars

\* An outermost _execute_task has returned after its handler raised with no
\* retry left; nothing has propagated.
C9_Witness ==
    /\ last.op = "_execute_task"
    /\ tasks[last.task].result = "exc"
    /\ tasks[last.task].status = "failed"
    /\ attempts[last.task][Len(attempts[last.task])] = "raise"
    /\ raised = {}

\* C10: when an outermost _execute_task has returned, by whichever path, the
\* task is not in active_tasks and its row in the store carries the task's
\* status, result and retry_count.
C10_Cleanup ==
    last.op = "_execute_task" =>
        LET t == last.task IN
        /\ ~InSeq(active_tasks, t)
        /\ \E r \in BagToSet(store) :
              /\ r.id = t
              /\ r.status = tasks[t].status
              /\ r.result = tasks[t].result
              /\ r.retry_count = tasks[t].retry_count

\* The type of task t has no handler.
Unknown(t) == tasks[t].type \notin HandlerTypes

\* C11: a task of a type without handler, however it is executed, gets a
\* result with an error and status failed; no handler is invoked for it,
\* nothing is raised, its retry_count stays as it was and no executor of it
\* waits in a handler or a backoff.
C11_UnknownType ==
    /\ \A r \in raised : r[1] # "_execute_task"
    /\ \A t \in 1..Len(tasks) :
          Unknown(t) =>
             /\ invoked[t] = 0
             /\ tasks[t].retry_count = 0
             /\ \A co \in BagToSet(coros) : co.task # t
             /\ tasks[t].status \in {"pending", "failed", "cancelled"}
             /\ tasks[t].status = "failed" =>
                    tasks[t].result = "unknown" /\ tasks[t].completed_at # None
             /\ (last.op = "_execute_task" /\ last.task = t) =>
                    tasks[t].status = "failed"

\* An _execute_task of a task of unknown type has returned.
C11_Witness ==
    /\ last.op = "_execute_task"
    /\ Unknown(last.task)
    /\ tasks[last.task].status = "failed"
    /\ tasks[last.task].result = "unknown"
    /\ tasks[last.task].retry_count = 0

\* In this step an attempt of task t has ended with the given outcome.
AttemptEnded(t, outcome) ==
    /\ t \in 1..Len(tasks)
    /\ Len(attempts'[t]) > Len(attempts[t])
    /\ attempts'[t][Len(attempts'[t])] = outcome

\* In this step task t has been re-armed for a retry: its retry_count is one
\* higher, it is pending with completed_at cleared.
Rearmed(t) ==
    /\ tasks'[t].retry_count = tasks[t].retry_count + 1
    /\ tasks'[t].status = "pending"
    /\ tasks'[t].completed_at = None

\* C12 as stated: every attempt that fails while retry_count < max_retries,
\* by raising or by returning a result with an error, re-arms the task.
C12_EveryFailureRetried ==
    [][\A t \in 1..Len(tasks) :
          ( /\ AttemptEnded(t, "raise") \/ AttemptEnded(t, "err")
            /\ tasks[t].retry_count < tasks[t].max_retries )
          => Rearmed(t)
      ]_vars

\* C12 as amended: an attempt that ends by the handler raising while
\* retry_count < max_retries re-arms the task, and the executor runs the task
\* again once its backoff of 2^retry_count is over; an attempt that ends with
\* a result carrying an error leaves the task failed with retry_count as it
\* was and no retry waiting.
C12_RaisedAttemptsRetried ==
    [][/\ \A t \in 1..Len(tasks) :
            /\ ( /\ AttemptEnded(t, "raise")
                 /\ tasks[t].retry_count < tasks[t].max_retries )
               => /\ Rearmed(t)
                  /\ \E co \in BagToSet(coros') :
                        /\ co.task = t
                        /\ co.pc = "backoff"
                        /\ co.wake = now + BackoffDelay(tasks'[t].retry_count)
            /\ AttemptEnded(t, "err")
               => /\ tasks'[t].retry_count = tasks[t].retry_count
                  /\ tasks'[t].status = "failed"
                  /\ \A co \in BagToSet(coros') : co.task # t
       /\ \A co \in BagToSet(coros) :
            (co.pc = "backoff" /\ CopiesIn(co, coros') < CopiesIn(co, coros))
            => /\ now >= co.wake
               /\ invoked'[co.task] = invoked[co.task] + 1
               /\ tasks'[co.task].status = "running"
      ]_vars

\* A task was retried after its handler raised, and was left failed, with no
\* further retry, when the retry returned a result with an error.
C12_Witness ==
    \E t \in 1..Len(tasks) :
        /\ attempts[t] = <<"raise", "err">>
        /\ tasks[t].status = "failed"
        /\ tasks[t].retry_count = 1
        /\ Quiet(t)

\* C13: update_task called twice in a row, and save_task followed by
\* update_task, with the same task state leave the tasks table as the first
\* call left it; the table holds one row per task id, the row of the write.
C13_IdempotentPersistence ==
    /\ \A r1, r2 \in BagToSet(store) :
          CopiesIn(r1, store) = 1 /\ (r1.id = r2.id => r1 = r2)
    /\ \A t \in 1..Len(tasks) :
          LET e1 == update_task(Engine, t)
              e2 == save_task(Engine, t)
          IN /\ update_task(e1, t).store = e1.store
             /\ update_task(e2, t).store = e2.store
             /\ database.connection = "open" =>
                    RowsOf(e1.store, t) = SetToBag({Row(t, tasks[t])})

\* An executor has returned through the finally blocks of its retry frames,
\* each of which wrote the same task state: the table holds that row once.
C13_Witness ==
    /\ last.op = "_execute_task"
    /\ tasks[last.task].retry_count >= 1
    /\ database.connection = "open"
    /\ RowsOf(store, last.task) = SetToBag({Row(last.task, tasks[last.task])})

\* C14 as stated: a write to the store that fails shows as an error to the
\* caller.
C14_WriteFailurePropagates == database.failed => database.escaped

\* C14 as amended: a write to the store that fails is caught and logged inside
\* save_task; nothing reaches the caller of create_task, cancel_task or
\* update_task, the table is left as it was, and the engine goes on with the
\* task in memory: cancel_task still returns True, create_task still
\* registers the deferred task.
C14_WriteFailureAbsorbed ==
    /\ [](~database.escaped)
    /\ [][database.connection = "closed" =>
            /\ store' = store
            /\ (last'.op = "cancel_task" /\ last'.ret = "True") =>
                   /\ database'.failed
                   /\ tasks'[last'.task].status = "cancelled"
            /\ (Len(tasks') > Len(tasks) /\ tasks'[Len(tasks')].scheduled_at # None)
                   => /\ database'.failed
                      /\ InSeq(scheduled_tasks', Len(tasks'))
         ]_vars

\* cancel_task has returned True although its write failed: the table still
\* holds the row of the pending task.
C14_Witness ==
    /\ database.failed
    /\ last.op = "cancel_task" /\ last.ret = "True"
    /\ tasks[last.task].status = "cancelled"
    /\ \E r \in BagToSet(store) : r.id = last.task /\ r.status = "pending"

\* Task t, if it has been created, is cancelled, or is completed or failed
\* and out of active_tasks.
Settled(t) ==
    t \in 1..Len(tasks) =>
        \/ tasks[t].status = "cancelled"
        \/ /\ tasks[t].status \in {"completed", "failed"}
           /\ ~InSeq(active_tasks, t)

\* C15: with handlers that end, a clock that advances and a driver loop and
\* executors that go on, every task that is created and not cancelled is
\* from some point on completed or failed and out of active_tasks; no
\* executor recurses deeper than max_retries retries.
C15_EventualTermination ==
    /\ [](\A co \in BagToSet(coros) : co.depth <= DefaultMaxRetries)
    /\ \A t \in 1..LiveTasks : <>[]Settled(t)

\* A task has failed with its retries used up, its executor unwound from
\* max_retries retry frames, and is out of active_tasks.
C15_Witness ==
    \E t \in 1..Len(tasks) :
        /\ tasks[t].status = "failed"
        /\ tasks[t].retry_count = tasks[t].max_retries
        /\ AllRaised(t)
        /\ Quiet(t)
        /\ ~InSeq(active_tasks, t)

\* C16: one call of process_pending_tasks starts at most
\* max_concurrent_tasks - |active_tasks| executors, |active_tasks| taken at
\* the start of the call, and none when that number is not positive.
C16_LaunchCap ==
    [][(loop.pc = "process" /\ loop'.pc = "sleep") =>
          LET available == max_concurrent_tasks - Len(active_tasks) IN
          Len(ready') - Len(ready) <= IF available > 0 THEN available ELSE 0
      ]_vars

\* Task t is in the list of pending tasks process_pending_tasks builds.
InPending(t) == InSeq(PendingFrom(Engine, 1), t)

\* C17: no task is in two of the three engine sets at once: pending (status
\* pending, seen by process_pending_tasks), scheduled (in scheduled_tasks),
\* active (in active_tasks).
C17_SetExclusivity ==
    \A t \in 1..Len(tasks) :
        /\ ~(InPending(t) /\ InSeq(scheduled_tasks, t))
        /\ ~(InPending(t) /\ InSeq(active_tasks, t))
        /\ ~(InSeq(scheduled_tasks, t) /\ InSeq(active_tasks, t))

\* C18: a task is in active_tasks exactly when its status is running.
C18_ActiveIsRunning ==
    \A t \in 1..Len(tasks) :
        InSeq(active_tasks, t) <=> tasks[t].status = "running"

\* Task t has reached a state the store is to follow: completed, failed,
\* cancelled, or pending again for a retry.
LifecycleState(t) ==
    \/ tasks[t].status \in {"completed", "failed", "cancelled"}
    \/ tasks[t].status = "pending" /\ tasks[t].retry_count > 0

\* C19: when the status of a task changes away from completed, failed,
\* cancelled or re-armed pending, the store has been written with that state
\* before: its row carries that status and retry_count.  In particular the
\* re-armed state is in the store when the retry attempt starts.
C19_StoreFollows ==
    [][\A t \in 1..Len(tasks) :
          (LifecycleState(t) /\ tasks'[t].status # tasks[t].status)
          => \E r \in BagToSet(store) :
                /\ r.id = t
                /\ r.status = tasks[t].status
                /\ r.retry_count = tasks[t].retry_count
      ]_vars

\* C20: the driver loop is suspended nowhere but in its sleep: it never
\* stands inside check_scheduled_tasks waiting for the handler or the backoff
\* of a task it started.
C20_FireAndForget ==
    /\ loop.pc \in {"check", "process", "sleep"}
    /\ \A co \in BagToSet(coros) : co.parent # "check"

\* C21: the wait before the k-th retry of a task is 2^k clock units, more
\* than the wait before the retry that preceded it, and the retry does not
\* begin before the wait is over.
C21_ExponentialBackoff ==
    [][/\ \A t \in 1..Len(tasks) :
            tasks'[t].retry_count # tasks[t].retry_count =>
                LET k == tasks'[t].retry_count IN
                /\ k \in 1..tasks[t].max_retries
                /\ \E co \in BagToSet(coros') :
                      /\ co.task = t
                      /\ co.pc = "backoff"
                      /\ CopiesIn(co, coros') > CopiesIn(co, coros)
                      /\ co.wake - now = Pow(2, k)
                      /\ co.wake - now > IF k = 1 THEN 0 ELSE Pow(2, k - 1)
       /\ \A co \in BagToSet(coros) :
            (co.pc = "backoff" /\ CopiesIn(co, coros') < CopiesIn(co, coros))
            => /\ now >= co.wake
               /\ invoked'[co.task] = invoked[co.task] + 1
      ]_vars

\* The third retry of a task runs: its waits of 2, 4 and 8 are over.
C21_Witness ==
    \E t \in 1..Len(tasks) :
        /\ tasks[t].retry_count = 3
        /\ invoked[t] = 4
        /\ tasks[t].status = "running"
        /\ now >= 14

\* C22: a task created for a later time has status scheduled from its
\* creation until it is promoted.
C22_DeferredIsScheduled ==
    \A t \in 1..Len(tasks) :
        (InSeq(scheduled_tasks, t) /\ now < tasks[t].scheduled_at)
        => tasks[t].status = "scheduled"

\* C23: create_task puts the task into scheduled_tasks, still pending and not
\* run, exactly when scheduled_at is set and later than the clock; otherwise
\* the task is not in scheduled_tasks and its execution has begun.  Every
\* member of scheduled_tasks was scheduled after its creation.
C23_EnqueueRule ==
    /\ [](\A t \in 1..Len(tasks) :
            InSeq(scheduled_tasks, t) =>
                tasks[t].scheduled_at > tasks[t].created_at)
    /\ [][Len(tasks') > Len(tasks) =>
            LET t == Len(tasks')
                at == tasks'[t].scheduled_at
            IN IF at # None /\ at > now
               THEN /\ Count(scheduled_tasks', t) = 1
                    /\ tasks'[t].status = "pending"
                    /\ invoked'[t] = 0
                    /\ ~InSeq(active_tasks', t)
               ELSE /\ ~InSeq(scheduled_tasks', t)
                    /\ tasks'[t].status \in {"running", "failed"}
                    /\ tasks'[t].status = "running" =>
                           invoked'[t] = 1 /\ InSeq(active_tasks', t)
                    /\ tasks'[t].status = "failed" =>
                           tasks'[t].type \notin HandlerTypes
         ]_vars

\* A task created with scheduled_at equal to the clock has been executed at
\* once, and a task created for a later time waits in scheduled_tasks.
C23_Witness ==
    /\ \E t \in 1..Len(tasks) :
          /\ tasks[t].scheduled_at = tasks[t].created_at
          /\ invoked[t] = 1
          /\ ~InSeq(scheduled_tasks, t)
    /\ \E t \in 1..Len(tasks) : InSeq(scheduled_tasks, t)

\* C24: a completed or failed task has completed_at set; a pending task,
\* fresh or re-armed, and a cancelled task have it unset.
C24_CompletedAtTracks ==
    \A t \in 1..Len(tasks) :
        /\ tasks[t].status \in {"completed", "failed"} =>
               tasks[t].completed_at # None
        /\ tasks[t].status \in {"pending", "cancelled"} =>
               tasks[t].completed_at = None

\* A task re-armed after a failure is pending with completed_at cleared.
C24_Witness ==
    \E t \in 1..Len(tasks) :
        /\ tasks[t].status = "pending"
        /\ tasks[t].retry_count >= 1
        /\ tasks[t].completed_at = None
        /\ tasks[t].result = "exc"

C26_RecordsKept ==
    [][/\ Len(tasks') >= Len(tasks)
       /\ \A id \in 1..Len(tasks) :
            get_task_status([Engine EXCEPT !.tasks = tasks'], id) # <<>>
      ]_vars

\* A task has been cancelled and get_task_status still returns its record.
C26_Witness ==
    /\ last.op = "cancel_task" /\ last.ret = "True"
    /\ get_task_status(Engine, last.task) # <<>>
    /\ get_task_status(Engine, last.task)[1].status = "cancelled"

\* C27: no step changes the type, created_at, scheduled_at, priority or
\* max_retries of a task.
C27_ImmutableFields ==
    [][\A t \in 1..Len(tasks) :
          /\ t \in 1..Len(tasks')
          /\ tasks'[t].type = tasks[t].type
          /\ tasks'[t].created_at = tasks[t].created_at
          /\ tasks'[t].scheduled_at = tasks[t].scheduled_at
          /\ tasks'[t].priority = tasks[t].priority
          /\ tasks'[t].max_retries = tasks[t].max_retries
      ]_vars

\* A deferred task has been started and has ended; it still carries its
\* scheduled_at.
C27_Witness ==
    \E t \in 1..Len(tasks) :
        /\ tasks[t].scheduled_at # None
        /\ tasks[t].scheduled_at > tasks[t].created_at
        /\ tasks[t].status \in {"completed", "failed"}
        /\ invoked[t] >= 1

\* The _execute_task invocations of task t in flight, a retry frame counted
\* with the invocation it belongs to: the suspended coroutines and the ones
\* asyncio.create_task has queued.
InFlight(t) ==
    BagCardinality([co \in {x \in BagToSet(coros) : x.task = t} |-> coros[co]])
    + Count(ready, t)

\* C28: at no time are two _execute_task invocations in flight for one task.
C28_SingleExecutor == \A t \in 1..Len(tasks) : InFlight(t) <= 1

\* C29: once cancel_task has cancelled a task, no step invokes its handler or
\* adds it to active_tasks.
C29_CancelEffective ==
    [][\A t \in 1..Len(tasks) :
          tasks[t].status = "cancelled" =>
              /\ invoked'[t] = invoked[t]
              /\ Count(active_tasks', t) <= Count(active_tasks, t)
      ]_vars

\* C30: every task in scheduled_tasks has status pending and is there once.
C30_ScheduledNotStarted ==
    \A t \in 1..Len(tasks) :
        InSeq(scheduled_tasks, t) =>
            tasks[t].status = "pending" /\ Count(scheduled_tasks, t) = 1

\* C31: no exception ever propagates out of check_scheduled_tasks, whatever
\* cancel_task does while the call is suspended on an execution.
C31_CancelTolerated == \A r \in raised : r[1] # "check_scheduled_tasks"

\* C32: each task occurs at most once in active_tasks.
C32_NoDuplicatesActive == \A t \in 1..Len(tasks) : Count(active_tasks, t) <= 1

\* C33: when shutdown has completed, every task whose status is pending or
\* scheduled has its row in the Task Store, written while the connection
\* was open: no write of the shutdown has failed.
C33_ShutdownPersists ==
    last.op = "shutdown" =>
        /\ \A t \in 1..Len(tasks) :
              tasks[t].status \in {"pending", "scheduled"} =>
                  RowsOf(store, t) = SetToBag({Row(t, tasks[t])})
        /\ (\E t \in 1..Len(tasks) :
              tasks[t].status \in {"pending", "scheduled"}) => ~database.failed

\* The ids of the records a query returned.
Returned_ids(h) == {h[i].id : i \in 1..Len(h)}

\* C34: get_task_history(limit) returns min(limit, number of tasks) records;
\* each is a snapshot of a different task of the task map; they are in
\* descending order of created_at and no task left out was created after a
\* task returned.
C34_HistoryNewestFirst ==
    last.op = "get_task_history" =>
        LET h == last.ret
            limit == last.task
        IN /\ Len(h) = (IF limit < Len(tasks) THEN limit ELSE Len(tasks))
           /\ \A i \in 1..Len(h) :
                 /\ h[i].id \in 1..Len(tasks)
                 /\ \A f \in DOMAIN tasks[h[i].id] : h[i][f] = tasks[h[i].id][f]
           /\ \A i, j \in 1..Len(h) :
                 i < j => h[i].id # h[j].id /\ h[i].created_at >= h[j].created_at
           /\ \A t \in (1..Len(tasks)) \ Returned_ids(h), i \in 1..Len(h) :
                 tasks[t].created_at <= h[i].created_at

\* get_task_history has returned the newer of two tasks created at different
\* moments and has left the older one out.
C34_Witness ==
    /\ last.op = "get_task_history"
    /\ last.task = 1
    /\ Len(last.ret) = 1
    /\ \E t \in 1..Len(tasks) : tasks[t].created_at < last.ret[1].created_at

\* C35: a query, and a caller's write into a record a query returned, leave
\* the task map with every task field, scheduled_tasks, active_tasks and the
\* Task Store as they were; get_task_status returns None for an unknown id
\* and the record of the task for a known one.
C35_QueriesReadOnly ==
    [][/\ last'.op \in RecordQueries \cup {"get_task_statistics", "caller"} =>
              UNCHANGED <<tasks, scheduled_tasks, active_tasks, store>>
       /\ last'.op = "get_task_status" =>
              IF last'.task \in 1..Len(tasks)
              THEN Len(last'.ret) = 1 /\ last'.ret[1].id = last'.task
              ELSE last'.ret = <<>>
      ]_vars

\* A caller has written into a record a query returned and the task still
\* has its own status.
C35_Witness ==
    /\ last.op = "caller"
    /\ \E i \in 1..Len(last.ret) :
          /\ last.ret[i].id = last.task
          /\ last.ret[i].status = "written"
          /\ tasks[last.task].status # "written"

\* C36: get_task_statistics agrees with the task map: total_tasks is the
\* number of tasks, completed_tasks, failed_tasks and pending_tasks are the
\* numbers of tasks with those statuses and sum to at most total_tasks,
\* active_tasks is the length of active_tasks, success_rate is 0 without
\* tasks and completed_tasks / total_tasks with some, never a failed division.
C36_StatisticsConsistent ==
    last.op = "get_task_statistics" =>
        LET st == last.ret
            With(status) == {t \in 1..Len(tasks) : tasks[t].status = status}
        IN /\ st.total_tasks = Len(tasks)
           /\ st.completed_tasks = Cardinality(With("completed"))
           /\ st.failed_tasks = Cardinality(With("failed"))
           /\ st.pending_tasks = Cardinality(With("pending"))
           /\ st.completed_tasks + st.failed_tasks + st.pending_tasks
                 <= st.total_tasks
           /\ st.active_tasks = Len(active_tasks)
           /\ st.success_rate.den # 0
           /\ IF Len(tasks) = 0 THEN st.success_rate.num = 0
              ELSE st.success_rate.num * st.total_tasks
                       = st.completed_tasks * st.success_rate.den

\* get_task_statistics has answered with a completed task, a task of another
\* status and a task being executed.
C36_Witness ==
    /\ last.op = "get_task_statistics"
    /\ last.ret.completed_tasks = 1
    /\ last.ret.total_tasks = 2
    /\ last.ret.active_tasks = 1
    /\ last.ret.success_rate = [num |-> 1, den |-> 2]

====
